---- MODULE Spec2Model ----
(***************************************************************************)
(* Verification model of script.ael.steam:                                 *)
(*   - the ROM scanner (resources/lib/scanner.py) and the scan entry point *)
(*     (default.py, scan_for_roms);                                        *)
(*   - the Steam scraper (resources/lib/scraper.py): disk cache, call      *)
(*     throttling, 429 retries, parsing and URL cleaning;                  *)
(*   - the Steam launcher (resources/lib/launcher.py): get_arguments.      *)
(* Nine specifications are defined:                                        *)
(*   SpecReconcile  _getDeadRoms / _processFoundItems applied to inputs    *)
(*                  drawn from bounded sets;                               *)
(*   Spec           whole scans (scan_for_roms) against a file system that *)
(*                  changes between scans;                                 *)
(*   SpecScraper    check_before_scraping / get_metadata / get_assets      *)
(*                  calls on the candidates selected for two ROMs;         *)
(*   SpecThrottle   successive invocations of _retrieve_URL_as_JSON;       *)
(*   SpecSearch     one get_candidates call on drawn terms and answers;    *)
(*   SpecParse      get_metadata on payloads with drawn genres and dates;  *)
(*   SpecLauncher   repeated get_arguments calls on drawn settings;        *)
(*   SpecAssetURL   resolve_asset_URL on a drawn asset URL;                *)
(*   SpecTags       get_metadata on payloads with drawn categories.        *)
(***************************************************************************)
EXTENDS Integers, Sequences, FiniteSets, TLC

(***************************************************************************)
(* Bounds of the model.                                                    *)
(***************************************************************************)
\* longest ROM list handed to the scanner functions (SpecReconcile)
MaxRoms == 2
\* longest candidate list handed to the scanner functions (SpecReconcile)
MaxCands == 2
\* most files on disk at the same time (Spec)
MaxFiles == 2
\* most ROMs kept in the stored collection (Spec)
MaxStored == 2

(***************************************************************************)
(* Generic helpers.                                                        *)
(***************************************************************************)
SeqsUpTo(S, n) == UNION {[1..k -> S] : k \in 0..n}

Range(s) == {s[i] : i \in 1..Len(s)}

RemoveAt(s, i) == [j \in 1..(Len(s) - 1) |-> IF j < i THEN s[j] ELSE s[j + 1]]

(***************************************************************************)
(* The file universe.  A file is a FileName: a directory and a base name.  *)
(* Everything the scanner asks of a FileName (getBase, getExt, getDir,     *)
(* pjoin, exists) and of MultiDiscInfo is tabulated for six base names.    *)
(***************************************************************************)
RomDir == "/roms"

BaseNames == {"a.rom", "n.txt", "[BIOS] b.rom", "G (Disc 1).rom", "G (Disc 2).rom", "G.rom"}

FileName(dir, base) == [dir |-> dir, base |-> base]

Files == {FileName(RomDir, b) : b \in BaseNames}

getBase(f) == f.base

getDir(f) == f.dir

pjoin(dir, name) == FileName(dir, name)

\* io.FileName.getExt() returns the extension with its dot; the scanner
\* compares it with '.' + ext, ext taken from the 'romext' setting.
getExt(f) == IF f.base = "n.txt" THEN ".txt" ELSE ".rom"

DotExt(ext) == IF ext = "rom" THEN ".rom" ELSE IF ext = "txt" THEN ".txt" ELSE "."

\* MultiDiscInfo.get_multidisc_info(ROM_file): the "(Disc n)" token marks a
\* disc of a set; the set is named by the base name without that token.
get_multidisc_info(f) ==
    IF f.base \in {"G (Disc 1).rom", "G (Disc 2).rom"}
    THEN [isMultiDisc |-> TRUE, setName |-> "G.rom", discName |-> f.base]
    ELSE [isMultiDisc |-> FALSE, setName |-> "", discName |-> ""]

\* re.findall('\[BIOS\]', base): the number of matches
BIOS_re(base) == IF base = "[BIOS] b.rom" THEN 1 ELSE 0

\* candidate.get_sort_value(): the rank of the file's path in string order
\* (' ' < '.' < 'G' < '[' < 'a' < 'n').
get_sort_value(f) ==
    CASE f.base = "G (Disc 1).rom" -> 1
      [] f.base = "G (Disc 2).rom" -> 2
      [] f.base = "G.rom" -> 3
      [] f.base = "[BIOS] b.rom" -> 4
      [] f.base = "a.rom" -> 5
      [] OTHER -> 6

(***************************************************************************)
(* State.                                                                  *)
(***************************************************************************)
VARIABLES
    existing,           \* the files that exist on disk (fileName.exists())
    scanner_settings,   \* RomFolderScanner.scanner_settings
    stored,             \* the persisted ROM collection (list of ROMObj)
    scan,               \* what the last scanner operation was given and returned
    api_key,            \* SteamScraper.api_key
    scraper_disabled,   \* Scraper.scraper_disabled
    call_count,         \* SteamScraper.call_count
    disk_cache,         \* the metadata disk cache: cache key -> raw payload
    cache_key,          \* Scraper.cache_key ("" before a candidate is set)
    candidate,          \* Scraper.candidate
    call,               \* what the last scraper call did and returned
    fetched,            \* per cache key: detail fetches that succeeded
    net,                \* HTTP requests and cool-down pauses so far
    launcher_settings,  \* SteamLauncher.launcher_settings
    launch              \* the get_arguments calls made and what they returned

scannerVars == <<existing, scanner_settings, stored, scan>>

scraperVars == <<api_key, scraper_disabled, call_count, disk_cache, cache_key, candidate,
                 call, fetched, net>>

launcherVars == <<launcher_settings, launch>>

vars == <<existing, scanner_settings, stored, scan, api_key, scraper_disabled, call_count,
          disk_cache, cache_key, candidate, call, fetched, net, launcher_settings, launch>>

\* launcher_settings: the keys present and the value of 'args', a string as
\* the sequence of its pieces
NoArgs == [keys |-> {}, args |-> <<>>]

NoLaunch == [calls |-> 0, configured |-> NoArgs, returned |-> <<>>, first_returned |-> <<>>]

\* no launcher in use
LauncherIdle ==
    /\ launcher_settings = NoArgs
    /\ launch = NoLaunch

(***************************************************************************)
(* api.ROMObj, as far as the scanner uses it: the file and the disks of a  *)
(* multi-disc set.  Python compares ROMObj by identity; list positions     *)
(* stand for identities here.                                              *)
(***************************************************************************)
ROMObj(f) == [file |-> f, disks |-> <<>>]

add_disk(rom, discName) == [rom EXCEPT !.disks = Append(@, discName)]

(***************************************************************************)
(* Scanner settings.                                                       *)
(***************************************************************************)
get_rom_extensions(settings) == settings.romext

supports_multidisc(settings) == settings.multidisc

ignore_bios(settings) == settings.ignore_bios

\* scanner.py:238 tests `self.ignore_bios`, the bound method, not its result:
\* a bound method is always true.
ignore_bios_test(settings) == TRUE

(***************************************************************************)
(* _getDeadRoms: walk the ROM list from the back; a ROM whose file does not *)
(* exist is removed from the list and appended to dead_roms.  The          *)
(* candidates argument is not read.                                        *)
(***************************************************************************)
IsDead(fs, candidates, rom) == rom.file \notin fs

RECURSIVE DeadLoop(_, _, _, _, _)
DeadLoop(fs, candidates, i, roms, dead_roms) ==
    IF i = 0
    THEN [roms |-> roms, dead_roms |-> dead_roms]
    ELSE IF IsDead(fs, candidates, roms[i])
         THEN DeadLoop(fs, candidates, i - 1, RemoveAt(roms, i), Append(dead_roms, roms[i]))
         ELSE DeadLoop(fs, candidates, i - 1, roms, dead_roms)

getDeadRoms(fs, candidates, roms) ==
    IF Len(roms) = 0
    THEN [roms |-> roms, dead_roms |-> <<>>]
    ELSE DeadLoop(fs, candidates, Len(roms), roms, <<>>)

(***************************************************************************)
(* _processFoundItems.                                                     *)
(***************************************************************************)
\* sorted(candidates, key=get_sort_value): stable
RECURSIVE InsertSorted(_, _)
InsertSorted(sorted, c) ==
    IF Len(sorted) = 0 THEN <<c>>
    ELSE IF get_sort_value(sorted[Len(sorted)]) <= get_sort_value(c)
         THEN Append(sorted, c)
         ELSE Append(InsertSorted(SubSeq(sorted, 1, Len(sorted) - 1), c), sorted[Len(sorted)])

RECURSIVE SortedPrefix(_, _)
SortedPrefix(candidates, n) ==
    IF n = 0 THEN <<>> ELSE InsertSorted(SortedPrefix(candidates, n - 1), candidates[n])

sorted_candidatesAsGiven(candidates) == candidates

sorted_candidates(candidates) == SortedPrefix(candidates, Len(candidates))

\* lines 160-170: the extension test
processROM(settings, ROM_file) ==
    \E i \in 1..Len(get_rom_extensions(settings)) :
        getExt(ROM_file) = DotExt(get_rom_extensions(settings)[i])

\* lines 188-193: the first new ROM whose base name is the set name (0: none)
MultiDiscIndexNone(new_roms, setName) == 0

MultiDiscIndex(new_roms, setName) ==
    IF \E i \in 1..Len(new_roms) : getBase(new_roms[i].file) = setName
    THEN CHOOSE i \in 1..Len(new_roms) :
            /\ getBase(new_roms[i].file) = setName
            /\ \A j \in 1..(i - 1) : getBase(new_roms[j].file) # setName
    ELSE 0

\* lines 176-177: the candidate is handled as a disc of a set
IsSetDisc(settings, file) ==
    get_multidisc_info(file).isMultiDisc /\ supports_multidisc(settings)

\* lines 202-206: the file the new ROM is stored under
ItemFile(settings, file) ==
    IF IsSetDisc(settings, file)
    THEN pjoin(getDir(file), get_multidisc_info(file).setName)
    ELSE file

\* lines 224-228
repeatedROMNever(roms, ROM_file) == FALSE

repeatedROM(roms, ROM_file) == \E i \in 1..Len(roms) : roms[i].file = ROM_file

\* lines 238-242
IsSkippedBios(settings, ROM_file) ==
    ignore_bios_test(settings) /\ BIOS_re(getBase(ROM_file)) > 0

\* progress_dialog.isCanceled() while candidate number i (in sort order) is
\* processed: the user pressed cancel while candidate number cancelAt was
\* processed, and the dialog stays cancelled.
isCanceled(cancelAt, i) == i >= cancelAt

\* is_None: None was returned; new_roms: the list returned otherwise; roms: the
\* ROM list argument as the call leaves it; visited: candidates whose
\* processing was started; probes: calls of isCanceled().
RECURSIVE ProcessLoop(_, _, _, _, _, _, _)
ProcessLoop(settings, sorted, i, roms, new_roms, cancelAt, probes) ==
    IF i > Len(sorted)
    THEN [is_None |-> FALSE, new_roms |-> new_roms, roms |-> roms,
          visited |-> Len(sorted), probes |-> probes]
    ELSE LET file == sorted[i]
             MDSet == get_multidisc_info(file)
             idx == MultiDiscIndex(new_roms, MDSet.setName)
             ROM_file == ItemFile(settings, file)
             next(nr) == ProcessLoop(settings, sorted, i + 1, roms, nr, cancelAt, probes)
         IN  IF ~processROM(settings, file) THEN next(new_roms)
             ELSE IF IsSetDisc(settings, file) /\ idx # 0
                  THEN next([new_roms EXCEPT ![idx] = add_disk(@, MDSet.discName)])
             ELSE IF repeatedROM(roms, ROM_file) THEN next(new_roms)
             ELSE IF IsSkippedBios(settings, ROM_file) THEN next(new_roms)
             ELSE IF isCanceled(cancelAt, i)
                  THEN [is_None |-> TRUE, new_roms |-> <<>>, roms |-> roms,
                        visited |-> i, probes |-> probes + 1]
                  ELSE ProcessLoop(settings, sorted, i + 1, roms,
                                   Append(new_roms, ROMObj(ROM_file)), cancelAt, probes + 1)

processFoundItems(settings, candidates, roms, cancelAt) ==
    ProcessLoop(settings, sorted_candidates(candidates), 1, roms, <<>>, cancelAt, 0)

(***************************************************************************)
(* One reconciliation: the scanner's scan() loads the stored ROMs, lists   *)
(* the candidates, calls _getDeadRoms and then _processFoundItems on the   *)
(* list _getDeadRoms has pruned.                                           *)
(***************************************************************************)
IdleScan ==
    [op |-> "idle", candidates |-> <<>>, roms_in |-> <<>>, cancelAt |-> 0, rescan |-> FALSE,
     dead |-> [roms |-> <<>>, dead_roms |-> <<>>],
     found |-> [is_None |-> FALSE, new_roms |-> <<>>, roms |-> <<>>, visited |-> 0, probes |-> 0]]

RunScan(op, fs, settings, candidates, roms, cancelAt, rescan) ==
    LET dead == getDeadRoms(fs, candidates, roms)
    IN  [op |-> op, candidates |-> candidates, roms_in |-> roms, cancelAt |-> cancelAt,
         rescan |-> rescan, dead |-> dead,
         found |-> processFoundItems(settings, candidates, dead.roms, cancelAt)]

SettingsSet == [romext : {<<"rom">>}, multidisc : BOOLEAN, ignore_bios : BOOLEAN]

(***************************************************************************)
(* The Steam scraper.  Text values are sequences of pieces (the empty      *)
(* string is the empty sequence); a date is a sequence of characters.      *)
(***************************************************************************)
\* akl.constants
DEFAULT_META_TITLE == <<"DEFAULT_META_TITLE">>

DEFAULT_META_YEAR == <<"DEFAULT_META_YEAR">>

DEFAULT_META_GENRE == <<"DEFAULT_META_GENRE">>

DEFAULT_META_PLOT == <<"DEFAULT_META_PLOT">>

\* a rating is a fraction <<numerator, denominator>>; the default is the empty pair
DEFAULT_META_RATING == <<>>

ASSET_FANART_ID == "fanart"

ASSET_BANNER_ID == "banner"

ASSET_SNAP_ID == "snap"

ASSET_TRAILER_ID == "trailer"

supported_asset_list == {ASSET_FANART_ID, ASSET_BANNER_ID, ASSET_SNAP_ID, ASSET_TRAILER_ID}

\* cache keys (one per ROM scraped) and the candidate the library keeps for each
CacheKeys == {"rom1", "rom2"}

CandidateOf(key) == [id |-> IF key = "rom1" THEN "10" ELSE "20"]

NoCandidate == [id |-> ""]

\* The 'data' object of an appdetails answer.  keys: the keys present;
\* nulls: the keys present with value null.
DataFull ==
    [keys |-> {"name", "release_date", "genres", "developers", "detailed_description",
               "metacritic", "categories", "movies", "screenshots", "header_image",
               "background_raw"},
     nulls |-> {},
     name |-> <<"Portal">>,
     release_date |-> [keys |-> {"date"}, nulls |-> {},
                       date |-> <<"1", "0", " ", "O", "c", "t", ",", " ", "2", "0", "0", "7">>],
     genres |-> <<[description |-> <<"Action">>], [description |-> <<"Puzzle">>]>>,
     developers |-> << <<"Valve">> >>,
     detailed_description |-> <<"<b>", "A puzzle game", "</b>">>,
     metacritic |-> [score |-> 90],
     categories |-> <<[id |-> 2], [id |-> 9], [id |-> 28]>>,
     movies |-> <<[keys |-> {"mp4", "webm"}, name |-> <<"Trailer">>,
                   thumbnail |-> <<"https:", "\\", "/", "t.jpg">>,
                   mp4 |-> [max |-> <<"https:", "\\", "/", "m.mp4">>],
                   webm |-> [max |-> <<"https:", "\\", "/", "m.webm">>]]>>,
     screenshots |-> <<[id |-> "0", path_thumbnail |-> <<"https:", "\\", "/", "s0t.jpg">>,
                        path_full |-> <<"https:", "\\", "/", "s0.jpg">>]>>,
     header_image |-> <<"https:", "\\", "/", "h.jpg">>,
     background_raw |-> <<"https:", "\\", "/", "b.jpg">>]

DataBare ==
    [keys |-> {"name", "genres", "movies"},
     nulls |-> {"name"},
     name |-> <<>>,
     release_date |-> [keys |-> {}, nulls |-> {}, date |-> <<>>],
     genres |-> <<>>,
     developers |-> <<>>,
     detailed_description |-> <<>>,
     metacritic |-> [score |-> 0],
     categories |-> <<>>,
     movies |-> <<>>,
     screenshots |-> <<>>,
     header_image |-> <<>>,
     background_raw |-> <<>>]

DataSet == {DataFull, DataBare}

\* the JSON answer of URL_GameDetails for one app id: {id: {'data': ...}}
Payload(id, data) == [id |-> id, data |-> data]

has(d, k) == k \in d.keys

notNone(d, k) == k \notin d.nulls

\* ', '.join(list)
RECURSIVE JoinFrom(_, _)
JoinFrom(list, i) ==
    IF i > Len(list) THEN <<>>
    ELSE IF i = Len(list) THEN list[i]
    ELSE list[i] \o <<", ">> \o JoinFrom(list, i + 1)

Join(list) == JoinFrom(list, 1)

_parse_metadata_title(game_dic) ==
    IF has(game_dic, "name") /\ notNone(game_dic, "name")
    THEN game_dic.name
    ELSE DEFAULT_META_TITLE

\* online_data['release_date']['date'][-4]: the fourth character from the end
_parse_metadata_year(online_data) ==
    IF /\ has(online_data, "release_date")
       /\ has(online_data.release_date, "date")
       /\ notNone(online_data.release_date, "date")
    THEN <<online_data.release_date.date[Len(online_data.release_date.date) - 3]>>
    ELSE DEFAULT_META_YEAR

_parse_metadata_genres(online_data) ==
    IF ~has(online_data, "genres") THEN <<>>
    ELSE LET genres == [i \in 1..Len(online_data.genres) |-> online_data.genres[i].description]
         IN  IF Len(genres) = 0 THEN DEFAULT_META_GENRE ELSE Join(genres)

_parse_metadata_developer(online_data) ==
    IF ~has(online_data, "developers") THEN <<>> ELSE Join(online_data.developers)

\* re.sub('<[^<]+?>', '', txt): the pieces that are tags are dropped
IsHtmlTag(piece) == piece \in {"<b>", "</b>"}

_clean_HTML_from_text(txt) == LET NotTag(p) == ~IsHtmlTag(p) IN SelectSeq(txt, NotTag)

_parse_metadata_plot(online_data) ==
    IF has(online_data, "detailed_description") /\ notNone(online_data, "detailed_description")
    THEN _clean_HTML_from_text(online_data.detailed_description)
    ELSE DEFAULT_META_PLOT

_parse_metadata_rating(online_data) ==
    IF has(online_data, "metacritic") /\ notNone(online_data, "metacritic")
    THEN <<online_data.metacritic.score, 100>>
    ELSE DEFAULT_META_RATING

_parse_metadata_tags(online_data) ==
    IF ~has(online_data, "categories") THEN <<>>
    ELSE LET category_ids == {online_data.categories[i].id : i \in 1..Len(online_data.categories)}
             tag(cond, name) == IF cond THEN <<name>> ELSE <<>>
         IN  tag(1 \in category_ids, "multiplayer")
             \o tag(2 \in category_ids, "singleplayer")
             \o tag(9 \in category_ids, "co-op")
             \o tag(38 \in category_ids, "online-co-op")
             \o tag(49 \in category_ids, "pvp")
             \o tag(36 \in category_ids, "online-pvp")
             \o tag(24 \in category_ids \/ 37 \in category_ids \/ 39 \in category_ids, "splitscreen")
             \o tag(18 \in category_ids, "partial-controller-support")
             \o tag(28 \in category_ids, "controller-supported")
             \o tag(9 \in category_ids, "co-op")

\* Scraper._new_gamedata_dic()
_new_gamedata_dic ==
    [title |-> DEFAULT_META_TITLE, year |-> DEFAULT_META_YEAR, genre |-> DEFAULT_META_GENRE,
     developer |-> <<>>, plot |-> DEFAULT_META_PLOT, rating |-> DEFAULT_META_RATING,
     tags |-> <<>>]

\* line 322: date[-4] raises IndexError on a string of fewer than 4 characters
ParseRaises(online_data) ==
    /\ has(online_data, "release_date")
    /\ has(online_data.release_date, "date")
    /\ notNone(online_data.release_date, "date")
    /\ Len(online_data.release_date.date) < 4

\* get_metadata, lines 158-169
ParseGamedata(online_data) ==
    [title |-> _parse_metadata_title(online_data),
     year |-> _parse_metadata_year(online_data),
     genre |-> _parse_metadata_genres(online_data),
     developer |-> _parse_metadata_developer(online_data),
     plot |-> _parse_metadata_plot(online_data),
     rating |-> _parse_metadata_rating(online_data),
     tags |-> _parse_metadata_tags(online_data)]

\* url.replace("\\", "")
_clean_url_slashes(url) == LET NotBackslash(p) == p # "\\" IN SelectSeq(url, NotBackslash)

\* Scraper._new_assetdata_dic() with the four fields get_assets sets
AssetData(asset_ID, display_name, url_thumb, url) ==
    [asset_ID |-> asset_ID, display_name |-> display_name,
     url_thumb |-> _clean_url_slashes(url_thumb), url |-> _clean_url_slashes(url)]

MovieUrl(movie) ==
    IF "mp4" \in movie.keys THEN movie.mp4.max
    ELSE IF "webm" \in movie.keys THEN movie.webm.max
    ELSE <<>>

\* get_assets, lines 198-255
ParseAssets(asset_info_id, online_data) ==
    IF asset_info_id = ASSET_TRAILER_ID
    THEN IF ~has(online_data, "movies") THEN <<>>
         ELSE [i \in 1..Len(online_data.movies) |->
                  AssetData(asset_info_id, online_data.movies[i].name,
                            online_data.movies[i].thumbnail, MovieUrl(online_data.movies[i]))]
    ELSE IF asset_info_id = ASSET_SNAP_ID
    THEN IF ~has(online_data, "screenshots") THEN <<>>
         ELSE [i \in 1..Len(online_data.screenshots) |->
                  AssetData(asset_info_id, <<"screenshot #", online_data.screenshots[i].id>>,
                            online_data.screenshots[i].path_thumbnail,
                            online_data.screenshots[i].path_full)]
    ELSE IF asset_info_id = ASSET_BANNER_ID
    THEN IF ~has(online_data, "header_image") THEN <<>>
         ELSE <<AssetData(asset_info_id, <<"Header image">>, online_data.header_image,
                          online_data.header_image)>>
    ELSE IF asset_info_id = ASSET_FANART_ID
    THEN IF ~has(online_data, "background_raw") THEN <<>>
         ELSE <<AssetData(asset_info_id, <<"Background image">>, online_data.background_raw,
                          online_data.background_raw)>>
    ELSE <<>>

(***************************************************************************)
(* _retrieve_URL_as_JSON.  The server's answers to the successive HTTP     *)
(* requests of one invocation are busy 429 answers followed by a final     *)
(* answer: 200 with a body, 200 with no body, or another status.           *)
(***************************************************************************)
\* most consecutive 429 answers the server gives to one invocation
MaxBusy == 5

FinalAnswers == {"200", "200None", "404", "500"}

http_code(busy, final, attempt) ==
    IF attempt <= busy THEN 429
    ELSE IF final = "500" THEN 500
    ELSE IF final = "404" THEN 404
    ELSE 200

body_is_NoneNever(busy, final, attempt) == FALSE

body_is_None(busy, final, attempt) == attempt <= busy \/ final # "200"

Event(e, ms) == [e |-> e, ms |-> ms]

\* line 412
NeedsCooldownLate(count) == count > 5

NeedsCooldown(count) == count > 4

\* line 417: self.call_count += 1
CountAfterRequestKept(count) == count

CountAfterRequest(count) == count + 1

\* line 422
TooManyRequestsOrError(http) == http # 200

TooManyRequests(http) == http = 429

\* line 423
RetriesExhaustedLate(retry) == retry > 5

RetriesExhausted(retry) == retry > 4

\* line 433: self._wait_for_API_request(5000*retry)
BackoffMsFlat(retry) == 5000

BackoffMs(retry) == 5000 * retry

\* the messages given to _handle_error
MsgTooManyRequests == <<"Steam has received too many requests. ",
                        "Stop scraping for now and repeat at a later time.">>

MsgHttpCode(http) == <<"HTTP code ", http>>

MsgNetworkError == <<"Steam: Network error in net_get_URL()">>

\* status: status_dic['status']; is_None: None is returned; count: call_count
\* afterwards; requests: HTTP requests sent; events: pauses and requests in order.
RECURSIVE RetrieveLoop(_, _, _, _, _, _, _)
RetrieveLoop(count, busy, final, attempt, retry, requests, events) ==
    LET cool == NeedsCooldown(count)
        events1 == IF cool THEN Append(events, Event("cooldown", 1000)) ELSE events
        count1 == CountAfterRequest(IF cool THEN 0 ELSE count)
        events2 == Append(events1, Event("get", 0))
        code == http_code(busy, final, attempt)
        result(status, msg) ==
            [status |-> status, is_None |-> ~status, msg |-> msg, count |-> count1,
             requests |-> requests + 1, events |-> events2]
    IN  IF code # 200
        THEN IF TooManyRequests(code)
             THEN IF RetriesExhausted(retry)
                  THEN result(FALSE, MsgTooManyRequests)
                  ELSE RetrieveLoop(count1, busy, final, attempt + 1, retry + 1, requests + 1,
                                    Append(events2, Event("wait", BackoffMs(retry))))
             ELSE result(FALSE, MsgHttpCode(code))
        ELSE IF body_is_None(busy, final, attempt)
             THEN result(FALSE, MsgNetworkError)
             ELSE result(TRUE, <<>>)

_retrieve_URL_as_JSON(count, busy, final) == RetrieveLoop(count, busy, final, 1, 1, 0, <<>>)

(***************************************************************************)
(* The disk cache (Scraper.CACHE_METADATA): for every key, whether it has  *)
(* an entry, and the entry.                                                *)
(***************************************************************************)
NoEntry == [cached |-> FALSE, json |-> Payload("", DataBare)]

EmptyCache == [k \in CacheKeys |-> NoEntry]

_check_disk_cacheNever(cache, key) == FALSE

_check_disk_cache(cache, key) == cache[key].cached

_retrieve_from_disk_cache(cache, key) == cache[key].json

_update_disk_cacheLost(cache, key, json_data) == cache

_update_disk_cache(cache, key, json_data) ==
    [cache EXCEPT ![key] = [cached |-> TRUE, json |-> json_data]]

\* lines 149-154 and 191-196: the cache after a miss
CacheAfterMissAlways(cache, key, status, json_data) == _update_disk_cache(cache, key, json_data)

CacheAfterMiss(cache, key, status, json_data) ==
    IF ~status THEN cache ELSE _update_disk_cache(cache, key, json_data)

(***************************************************************************)
(* Scraper calls.  call.after tells what the previous call did for the     *)
(* cache key of this call: "metadata" / "assets" (that call fetched the    *)
(* payload and cached it), "failed" (its fetch failed), "" otherwise.      *)
(***************************************************************************)
NoRetrieve == [status |-> TRUE, is_None |-> FALSE, msg |-> <<>>, count |-> 0, requests |-> 0,
               events |-> <<>>]

IdleCall ==
    [op |-> "idle", key |-> "", asset |-> "", disabled |-> FALSE, hit |-> FALSE, status |-> TRUE,
     outcome |-> "return", ret_None |-> FALSE, gamedata |-> _new_gamedata_dic, assets |-> <<>>,
     requests |-> 0, events |-> <<>>, count_before |-> 0, after |-> "",
     cache_before |-> EmptyCache, msg |-> <<>>, busy |-> 0, final |-> "",
     search_term |-> <<>>, json_data |-> <<>>, candidate_list |-> <<>>,
     selected_asset |-> [url |-> <<>>], url |-> <<>>, url_log |-> <<>>]

After(key) ==
    IF call.key # key \/ call.op \notin {"get_metadata", "get_assets"} \/ call.disabled \/ call.hit
    THEN ""
    ELSE IF ~call.status THEN "failed"
    ELSE IF call.op = "get_metadata" THEN "metadata" ELSE "assets"

FetchCap == 2

CountFetch(key, r) ==
    IF r.status /\ fetched[key] < FetchCap THEN [fetched EXCEPT ![key] = @ + 1] ELSE fetched

\* the 'steam-api-key' setting: not set, or set
ApiKeys == {"", "KEY"}

\* the scraper outside of any scrape
ScraperIdle ==
    /\ api_key = "KEY"
    /\ scraper_disabled = FALSE
    /\ call_count = 0
    /\ disk_cache = EmptyCache
    /\ cache_key = ""
    /\ candidate = NoCandidate
    /\ call = IdleCall
    /\ fetched = [k \in CacheKeys |-> 0]
    /\ net = [requests |-> 0, pauses |-> 0, all200 |-> TRUE]

ScraperInit ==
    /\ api_key \in ApiKeys
    /\ scraper_disabled = FALSE
    /\ call_count = 0
    /\ disk_cache = EmptyCache
    /\ cache_key = ""
    /\ candidate = NoCandidate
    /\ call = IdleCall
    /\ fetched = [k \in CacheKeys |-> 0]
    /\ net = [requests |-> 0, pauses |-> 0, all200 |-> TRUE]

\* lines 100-105: scraper_disabled after check_before_scraping
DisabledAfterCheckAsBefore(key, disabled) == disabled

DisabledAfterCheck(key, disabled) == IF key # "" THEN disabled ELSE TRUE

check_before_scraping ==
    /\ call' = [IdleCall EXCEPT !.op = "check_before_scraping", !.status = (api_key # ""),
                                !.disabled = scraper_disabled]
    /\ scraper_disabled' = DisabledAfterCheck(api_key, scraper_disabled)
    /\ UNCHANGED <<api_key, call_count, disk_cache, cache_key, candidate, fetched, net>>
    /\ UNCHANGED <<scannerVars, launcherVars>>

\* Scraper.set_candidate: the library selects the candidate of a ROM
set_candidate ==
    /\ \E key \in CacheKeys :
          /\ cache_key' = key
          /\ candidate' = CandidateOf(key)
    /\ call' = [IdleCall EXCEPT !.op = "set_candidate"]
    /\ UNCHANGED <<api_key, scraper_disabled, call_count, disk_cache, fetched, net>>
    /\ UNCHANGED <<scannerVars, launcherVars>>

\* What the server does during one details fetch: it is not busy, busy once,
\* or busy throughout; then it answers with final; data is the body of a 200
\* answer (one representative where no body is read).
Servers ==
    {srv \in [busy : {0, 1, MaxBusy}, final : FinalAnswers, data : DataSet] :
        /\ srv.busy = MaxBusy => srv.final = "500"
        /\ (srv.busy = MaxBusy \/ srv.final # "200") => srv.data = DataBare}

\* the record of a get_metadata / get_assets call, before its outcome is known
Entered(op, asset) ==
    [IdleCall EXCEPT !.op = op, !.key = cache_key, !.asset = asset,
                     !.disabled = scraper_disabled, !.after = After(cache_key),
                     !.count_before = call_count, !.cache_before = disk_cache]

Fetched(rec, r, srv) ==
    [rec EXCEPT !.status = r.status, !.requests = r.requests, !.events = r.events,
                !.msg = r.msg, !.busy = srv.busy, !.final = srv.final]

(***************************************************************************)
(* get_candidates and _search_candidates.  A title or search term is the   *)
(* sequence of its characters.                                             *)
(***************************************************************************)
\* str.lower() on the characters used
LowerChar(ch) ==
    CASE ch = "P" -> "p"
      [] ch = "O" -> "o"
      [] ch = "R" -> "r"
      [] ch = "T" -> "t"
      [] ch = "A" -> "a"
      [] ch = "L" -> "l"
      [] ch = "U" -> "u"
      [] ch = "N" -> "n"
      [] OTHER -> ch

lower(str) == [i \in 1..Len(str) |-> LowerChar(str[i])]

\* str.find(sub): the lowest index (from 0) where sub occurs, -1 if none
find(str, sub) ==
    LET at == {i \in 0..(Len(str) - Len(sub)) : SubSeq(str, i + 1, i + Len(sub)) = sub}
    IN  IF at = {} THEN -1 ELSE CHOOSE i \in at : \A j \in at : i <= j

Portal == <<"P", "o", "r", "t", "a", "l">>

Titles ==
    {Portal,
     <<"P", "O", "R", "T", "A", "L">>,
     <<"P", "o", "r", "t", "a", "l", " ", "2">>,
     <<"U", "n", "p", "o", "r", "t", "a", "l">>,
     <<"U", "n", "r", "e", "l", "a", "t", "e", "d">>,
     <<"P", "o", "r", "t">>}

SearchTerms == {Portal, <<"p", "o", "r", "t", "a", "l">>, <<"P", "O", "R", "T">>, <<"x">>}

\* most items in an answer to URL_SearchAppByName
MaxItems == 3

\* the answers: the appid of an item is its position in the answer
SearchAnswers ==
    UNION {{[i \in 1..n |-> [appid |-> i, name |-> names[i]]] : names \in [1..n -> Titles]}
           : n \in 0..MaxItems}

\* lines 293-302: the candidate built from one item
Candidate(item, search_term) ==
    [id |-> item.appid,
     display_name |-> item.name,
     order |-> 1 + (IF lower(item.name) = lower(search_term) THEN 2 ELSE 0)
                 + (IF find(lower(item.name), lower(search_term)) # -1 THEN 1 ELSE 0)]

\* list.sort(key=order, reverse=True): stable, equal keys keep their order
InsertByOrderFirst(sorted, c) ==
    LET before == {i \in 1..Len(sorted) : sorted[i].order > c.order}
        k == Cardinality(before)
    IN  SubSeq(sorted, 1, k) \o <<c>> \o SubSeq(sorted, k + 1, Len(sorted))

InsertByOrder(sorted, c) ==
    LET before == {i \in 1..Len(sorted) : sorted[i].order >= c.order}
        k == Cardinality(before)
    IN  SubSeq(sorted, 1, k) \o <<c>> \o SubSeq(sorted, k + 1, Len(sorted))

RECURSIVE SortByOrder(_, _)
SortByOrder(list, n) ==
    IF n = 0 THEN <<>> ELSE InsertByOrder(SortByOrder(list, n - 1), list[n])

\* lines 288-309, given the JSON answer
ParseCandidates(json_data, search_term) ==
    LET candidate_list == [i \in 1..Len(json_data) |-> Candidate(json_data[i], search_term)]
    IN  SortByOrder(candidate_list, Len(candidate_list))

\* get_candidates(search_term, ...) with the search term, the body of a 200
\* answer and the server behaviour drawn from the given sets
get_candidates_from(terms, answers, servers) ==
    /\ \E search_term \in terms :
          LET entered == [IdleCall EXCEPT !.op = "get_candidates", !.search_term = search_term,
                                          !.disabled = scraper_disabled,
                                          !.count_before = call_count,
                                          !.cache_before = disk_cache]
          IN  IF scraper_disabled
              THEN /\ call' = [entered EXCEPT !.ret_None = TRUE]
                   /\ UNCHANGED call_count
              ELSE \E srv \in servers, json_data \in answers :
                      LET r == _retrieve_URL_as_JSON(call_count, srv.busy, srv.final)
                          rec == Fetched(entered, r, srv)
                      IN  /\ call_count' = r.count
                          /\ ~r.status => json_data = <<>>
                          /\ call' = IF ~r.status THEN [rec EXCEPT !.ret_None = TRUE]
                                     ELSE [rec EXCEPT !.json_data = json_data,
                                                      !.candidate_list =
                                                          ParseCandidates(json_data, search_term)]
    /\ UNCHANGED <<api_key, scraper_disabled, disk_cache, cache_key, candidate, fetched, net>>
    /\ UNCHANGED <<scannerVars, launcherVars>>

get_metadata_from(servers) ==
    /\ cache_key # ""
    /\ IF scraper_disabled
       THEN /\ call' = Entered("get_metadata", "")
            /\ UNCHANGED <<call_count, disk_cache, fetched>>
       ELSE IF _check_disk_cache(disk_cache, cache_key)
       THEN \* line 158 reads the local `id`, which only the miss path assigns
            \* (line 146): UnboundLocalError
            /\ call' = [Entered("get_metadata", "") EXCEPT !.hit = TRUE, !.outcome = "raise"]
            /\ UNCHANGED <<call_count, disk_cache, fetched>>
       ELSE \E srv \in servers :
               LET id == candidate.id
                   r == _retrieve_URL_as_JSON(call_count, srv.busy, srv.final)
                   json_data == Payload(id, srv.data)
                   rec == Fetched(Entered("get_metadata", ""), r, srv)
               IN  /\ call_count' = r.count
                   /\ disk_cache' = CacheAfterMiss(disk_cache, cache_key, r.status, json_data)
                   /\ fetched' = CountFetch(cache_key, r)
                   /\ call' = IF ~r.status THEN [rec EXCEPT !.ret_None = TRUE]
                              ELSE IF ParseRaises(json_data.data)
                              THEN [rec EXCEPT !.outcome = "raise"]
                              ELSE [rec EXCEPT !.gamedata = ParseGamedata(json_data.data)]
    /\ UNCHANGED <<api_key, scraper_disabled, cache_key, candidate, net>>
    /\ UNCHANGED <<scannerVars, launcherVars>>

get_metadata == get_metadata_from(Servers)

get_assets ==
    /\ cache_key # ""
    /\ \E asset_info_id \in supported_asset_list :
          IF scraper_disabled
          THEN /\ call' = Entered("get_assets", asset_info_id)
               /\ UNCHANGED <<call_count, disk_cache, fetched>>
          ELSE IF _check_disk_cache(disk_cache, cache_key)
          THEN LET json_data == _retrieve_from_disk_cache(disk_cache, cache_key)
               IN  /\ call' = [Entered("get_assets", asset_info_id) EXCEPT
                                  !.hit = TRUE,
                                  !.assets = ParseAssets(asset_info_id, json_data.data)]
                   /\ UNCHANGED <<call_count, disk_cache, fetched>>
          ELSE \E srv \in Servers :
                  LET candidate_id == candidate.id
                      r == _retrieve_URL_as_JSON(call_count, srv.busy, srv.final)
                      json_data == Payload(candidate_id, srv.data)
                      rec == Fetched(Entered("get_assets", asset_info_id), r, srv)
                  IN  /\ call_count' = r.count
                      /\ disk_cache' = CacheAfterMiss(disk_cache, cache_key, r.status, json_data)
                      /\ fetched' = CountFetch(cache_key, r)
                      /\ call' = IF ~r.status THEN [rec EXCEPT !.ret_None = TRUE]
                                 ELSE [rec EXCEPT !.assets =
                                           ParseAssets(asset_info_id, json_data.data)]
    /\ UNCHANGED <<api_key, scraper_disabled, cache_key, candidate, net>>
    /\ UNCHANGED <<scannerVars, launcherVars>>

(***************************************************************************)
(* SpecReconcile: the two scanner functions on drawn inputs.  The ROM list *)
(* is any list of at most MaxRoms ROMs the scanner can have stored (a file *)
(* with a ROM extension and no BIOS tag); only files of listed ROMs may be *)
(* missing from disk (the functions read exists() of no other file); the   *)
(* candidate list is any list of at most MaxCands existing files, repeats  *)
(* included.                                                               *)
(***************************************************************************)
StorableFiles == {f \in Files : getExt(f) = ".rom" /\ BIOS_re(getBase(f)) = 0}

InitReconcile ==
    /\ stored \in SeqsUpTo({ROMObj(f) : f \in StorableFiles}, MaxRoms)
    /\ \E missing \in SUBSET {stored[i].file : i \in 1..Len(stored)} : existing = Files \ missing
    /\ scanner_settings \in SettingsSet
    /\ scan = IdleScan
    /\ ScraperIdle
    /\ LauncherIdle

Reconcile ==
    /\ scan.op = "idle"
    /\ \E candidates \in SeqsUpTo(existing, MaxCands) : \E cancelAt \in 1..(Len(candidates) + 1) :
          scan' = RunScan("reconcile", existing, scanner_settings, candidates, stored, cancelAt, FALSE)
    /\ UNCHANGED <<existing, scanner_settings, stored>>
    /\ UNCHANGED <<scraperVars, launcherVars>>

NextReconcile == Reconcile

SpecReconcile == InitReconcile /\ [][NextReconcile]_vars

(***************************************************************************)
(* Spec: scans of a collection that starts empty, over a file system in    *)
(* which files come and go between scans.                                  *)
(***************************************************************************)
\* _getCandidates: every file found in the ROM path, in the order of the listing
Listings(fs) ==
    {l \in [1..Cardinality(fs) -> fs] : \A i, j \in 1..Cardinality(fs) : l[i] = l[j] => i = j}

\* default.py scan_for_roms after scanner.scan(): dead ROMs are removed when
\* there are any; the scanned ROMs are stored when there are any.  With
\* scanned_roms None nothing is stored.
AfterRemoveDead(roms, rec) ==
    IF Len(rec.dead.dead_roms) > 0 THEN rec.dead.roms ELSE roms

AfterStoreScanned(roms, rec) ==
    IF rec.found.is_None \/ Len(rec.found.new_roms) = 0
    THEN roms
    ELSE roms \o rec.found.new_roms

Init ==
    /\ existing = {}
    /\ stored = <<>>
    /\ scanner_settings \in {st \in SettingsSet : st.ignore_bios}
    /\ scan = IdleScan
    /\ ScraperIdle
    /\ LauncherIdle

CreateFile ==
    /\ Cardinality(existing) < MaxFiles
    /\ \E f \in Files \ existing : existing' = existing \cup {f}
    /\ scan' = IdleScan
    /\ UNCHANGED <<scanner_settings, stored>>
    /\ UNCHANGED <<scraperVars, launcherVars>>

DeleteFile ==
    /\ \E f \in existing : existing' = existing \ {f}
    /\ scan' = IdleScan
    /\ UNCHANGED <<scanner_settings, stored>>
    /\ UNCHANGED <<scraperVars, launcherVars>>

scan_for_roms ==
    /\ \E candidates \in Listings(existing), cancelAt \in 1..(Cardinality(existing) + 1) :
          LET rescan == scan.op = "scan" /\ ~scan.found.is_None /\ scan.candidates = candidates
              rec == RunScan("scan", existing, scanner_settings, candidates, stored, cancelAt, rescan)
          IN  /\ scan' = rec
              /\ stored' = AfterStoreScanned(AfterRemoveDead(stored, rec), rec)
              /\ Len(stored') <= MaxStored
    /\ UNCHANGED <<existing, scanner_settings>>
    /\ UNCHANGED <<scraperVars, launcherVars>>

Next == CreateFile \/ DeleteFile \/ scan_for_roms

Spec == Init /\ [][Next]_vars

(***************************************************************************)
(* Properties of the scanner.                                              *)
(***************************************************************************)
FilesOf(roms) == {roms[i].file : i \in 1..Len(roms)}

Count(s, x) == Cardinality({i \in 1..Len(s) : s[i] = x})

SameItems(s, t) == \A x \in Range(s) \cup Range(t) : Count(s, x) = Count(t, x)

KeepIn(roms, R) == LET InR(rom) == rom.file \in R IN SelectSeq(roms, InR)

KeepNotIn(roms, R) == LET NotInR(rom) == rom.file \notin R IN SelectSeq(roms, NotInR)

\* the candidate passes the extension and BIOS tests of _processFoundItems
Eligible(settings, c) ==
    /\ \E i \in 1..Len(settings.romext) : getExt(c) = DotExt(settings.romext[i])
    /\ BIOS_re(ItemFile(settings, c).base) = 0

\* C1: dead-item detection removes from the ROM list exactly the ROMs whose
\* identity (file) is not among the candidates and returns exactly those as
\* dead; the ROMs whose identity is among the candidates stay, in their order.
C1_DeadAreThoseNotInCandidates ==
    scan.op = "reconcile" =>
        /\ scan.dead.roms = KeepIn(scan.roms_in, Range(scan.candidates))
        /\ SameItems(scan.dead.dead_roms, KeepNotIn(scan.roms_in, Range(scan.candidates)))

C3_DuplicatesCollapse ==
    (scan.op = "reconcile" /\ ~scan.found.is_None) =>
        \A k, l \in 1..Len(scan.candidates) :
            LET id == ItemFile(scanner_settings, scan.candidates[k])
            IN  ( /\ k # l
                  /\ ItemFile(scanner_settings, scan.candidates[l]) = id
                  /\ Eligible(scanner_settings, scan.candidates[k])
                  /\ Eligible(scanner_settings, scan.candidates[l])
                  /\ id \notin FilesOf(scan.dead.roms) )
                => Cardinality({i \in 1..Len(scan.found.new_roms) :
                                  scan.found.new_roms[i].file = id}) = 1

\* C4: after an uncancelled scan whose results were committed, a second
\* uncancelled scan of the same candidates finds no dead and no new item and
\* leaves the stored collection unchanged.
C4_RescanIsIdempotent ==
    (scan.op = "scan" /\ scan.rescan /\ ~scan.found.is_None) =>
        /\ Len(scan.dead.dead_roms) = 0
        /\ Len(scan.found.new_roms) = 0
        /\ stored = scan.roms_in

\* C5: a scan in which the cancellation probe reported cancelled commits
\* nothing: _processFoundItems returned None and the stored collection is
\* what it was before the scan (no dead ROM removed, no new ROM stored).
C5_CancelCommitsNothing ==
    (scan.op = "scan" /\ scan.found.is_None) =>
        /\ scan.found.new_roms = <<>>
        /\ stored = scan.roms_in

\* C17: the dead list holds the removed ROMs in the relative order they had
\* in the ROM list given to _getDeadRoms.
C17_DeadKeepInputOrder ==
    scan.op = "reconcile" => scan.dead.dead_roms = KeepNotIn(scan.roms_in, existing)

\* C18: the cancellation probe is consulted after every candidate processed,
\* whatever became of the candidate; when the probe reports cancelled from
\* the cancelAt-th candidate on, _processFoundItems stops at that candidate
\* and returns None.
C18_ProbeAfterEveryCandidate ==
    scan.op = "reconcile" =>
        /\ scan.found.probes = scan.found.visited
        /\ scan.cancelAt <= Len(scan.candidates)
              => (scan.found.is_None /\ scan.found.visited <= scan.cancelAt)

\* C19: the new ROMs of an uncancelled _processFoundItems are in the order of
\* the sort values of the candidates they were built from: each new ROM can
\* be assigned a candidate of its own that passes the tests and gives its
\* file, so that an earlier new ROM has the candidate with the lower sort
\* value (for equal sort values, the earlier candidate).
C19_NewFollowSortOrder ==
    (scan.op = "reconcile" /\ ~scan.found.is_None) =>
        LET new == scan.found.new_roms
            cs == scan.candidates
        IN  \E f \in [1..Len(new) -> 1..Len(cs)] :
               /\ \A i \in 1..Len(new) :
                     /\ Eligible(scanner_settings, cs[f[i]])
                     /\ ItemFile(scanner_settings, cs[f[i]]) = new[i].file
               /\ \A i, j \in 1..Len(new) :
                     i < j => \/ get_sort_value(cs[f[i]]) < get_sort_value(cs[f[j]])
                              \/ /\ get_sort_value(cs[f[i]]) = get_sort_value(cs[f[j]])
                                 /\ f[i] < f[j]

\* C19 witness: two new ROMs from candidates supplied in descending order of
\* sort value.
C19_Witness ==
    /\ scan.op = "reconcile"
    /\ ~scan.found.is_None
    /\ Len(scan.candidates) = 2
    /\ get_sort_value(scan.candidates[1]) > get_sort_value(scan.candidates[2])
    /\ Len(scan.found.new_roms) = 2
    /\ scan.found.new_roms[1].file = ItemFile(scanner_settings, scan.candidates[2])
    /\ scan.found.new_roms[2].file = ItemFile(scanner_settings, scan.candidates[1])

\* C24: with ignore_bios false, a candidate tagged [BIOS] that has an allowed
\* extension and is not in the ROM list becomes a new ROM of an uncancelled
\* _processFoundItems; a [BIOS] candidate is skipped only with ignore_bios
\* true.
C24_BiosSkippedOnlyWhenIgnored ==
    (scan.op = "reconcile" /\ ~scan.found.is_None /\ ~ignore_bios(scanner_settings)) =>
        \A k \in 1..Len(scan.candidates) :
            ( /\ BIOS_re(getBase(scan.candidates[k])) > 0
              /\ processROM(scanner_settings, scan.candidates[k])
              /\ scan.candidates[k] \notin FilesOf(scan.dead.roms) )
            => scan.candidates[k] \in FilesOf(scan.found.new_roms)

\* the discs of the set G among the candidates, in sort order
Disc1 == FileName(RomDir, "G (Disc 1).rom")

Disc2 == FileName(RomDir, "G (Disc 2).rom")

SetFile == FileName(RomDir, "G.rom")

Copies(x, n) == [i \in 1..n |-> x]

DiscsInOrder(candidates) ==
    Copies(getBase(Disc1), Count(candidates, Disc1))
        \o Copies(getBase(Disc2), Count(candidates, Disc2))

ScannerIdle ==
    /\ existing = {}
    /\ stored = <<>>
    /\ scanner_settings = [romext |-> <<"rom">>, multidisc |-> FALSE, ignore_bios |-> TRUE]
    /\ scan = IdleScan

InitScraper == ScannerIdle /\ LauncherIdle /\ ScraperInit

\* get_candidates in a scrape run: one search term, an answer with no item or
\* with two, the server not busy
RunAnswers ==
    {<<>>,
     <<[appid |-> 1, name |-> <<"P", "o", "r", "t", "a", "l", " ", "2">>],
       [appid |-> 2, name |-> Portal]>>}

RunServers == [busy : {0}, final : {"200", "200None", "500"}, data : {DataBare}]

get_candidates_run == get_candidates_from({Portal}, RunAnswers, RunServers)

NextScraper ==
    \/ check_before_scraping
    \/ set_candidate
    \/ get_candidates_run
    \/ get_metadata
    \/ get_assets

SpecScraper == InitScraper /\ [][NextScraper]_vars

(***************************************************************************)
(* SpecThrottle: _retrieve_URL_as_JSON invoked again and again on a        *)
(* scraper whose counter starts at 0.  net counts the HTTP requests sent   *)
(* and the cool-down pauses made so far, and tells whether every request   *)
(* so far was answered 200.                                                *)
(***************************************************************************)
\* most HTTP requests in one run of SpecThrottle
MaxRequests == 12

Pauses(events) == LET IsCooldown(ev) == ev.e = "cooldown" IN Len(SelectSeq(events, IsCooldown))

retrieve_URL_as_JSON ==
    /\ \E busy \in 0..MaxBusy, final \in FinalAnswers :
          LET r == _retrieve_URL_as_JSON(call_count, busy, final)
          IN  /\ net.requests + r.requests <= MaxRequests
              /\ call_count' = r.count
              /\ net' = [requests |-> net.requests + r.requests,
                         pauses |-> net.pauses + Pauses(r.events),
                         all200 |-> net.all200 /\ busy = 0 /\ http_code(busy, final, 1) = 200]
              /\ call' = [IdleCall EXCEPT !.op = "_retrieve_URL_as_JSON", !.status = r.status,
                                          !.ret_None = r.is_None, !.requests = r.requests,
                                          !.events = r.events, !.count_before = call_count,
                                          !.msg = r.msg, !.busy = busy, !.final = final]
    /\ UNCHANGED <<api_key, scraper_disabled, disk_cache, cache_key, candidate, fetched>>
    /\ UNCHANGED <<scannerVars, launcherVars>>

InitThrottle == ScannerIdle /\ LauncherIdle /\ ScraperIdle

NextThrottle == retrieve_URL_as_JSON

SpecThrottle == InitThrottle /\ [][NextThrottle]_vars

(***************************************************************************)
(* Properties of the scraper.                                              *)
(***************************************************************************)
IsScrape(c) == c.op \in {"get_metadata", "get_assets"} /\ ~c.disabled

\* C6: a get_metadata call that directly follows a get_metadata call which
\* fetched the details of the same cache key successfully is served from the
\* cache entry that call wrote and sends nothing: the two calls together make
\* one fetch.
C6_SecondCallIsServedFromCache ==
    (call.op = "get_metadata" /\ call.after = "metadata")
        => /\ call.hit
           /\ call.requests = 0
           /\ call.events = <<>>
           /\ call_count = call.count_before
           /\ _check_disk_cache(call.cache_before, call.key)
           /\ disk_cache = call.cache_before
           /\ fetched[call.key] = 1

C6_Witness ==
    /\ call.op = "get_metadata"
    /\ call.after = "metadata"
    /\ call.hit
    /\ call.requests = 0

\* C7: a get_metadata call that hits the cache completes normally and returns
\* the record parsed from the cached payload.
C7_CacheHitReturnsParsedRecord ==
    (call.op = "get_metadata" /\ call.hit)
        => /\ call.outcome = "return"
           /\ ~call.ret_None
           /\ call.gamedata =
                  ParseGamedata(_retrieve_from_disk_cache(call.cache_before, call.key).data)

\* C8: whatever get_metadata and get_assets calls are made, the details of a
\* candidate are fetched successfully at most once; every call made once the
\* entry exists is a hit that sends nothing.
C8_OneFetchPerCandidate ==
    /\ \A k \in CacheKeys : fetched[k] <= 1
    /\ \A k \in CacheKeys : fetched[k] = 1 <=> _check_disk_cache(disk_cache, k)
    /\ (IsScrape(call) /\ _check_disk_cache(call.cache_before, call.key))
          => (call.hit /\ call.requests = 0 /\ disk_cache = call.cache_before)

C8_Witness ==
    /\ call.op = "get_assets"
    /\ call.asset = ASSET_TRAILER_ID
    /\ call.hit
    /\ Len(call.assets) = 1
    /\ fetched[call.key] = 1
    /\ \E k \in CacheKeys : k # call.key /\ fetched[k] = 1

\* C9: a get_metadata or get_assets call whose fetch fails returns None and
\* leaves the cache as it was, without an entry for its key; the call that
\* follows it for the same key is a miss that goes to the network again.
C9_FailuresAreNeverCached ==
    /\ (IsScrape(call) /\ ~call.hit /\ ~call.status)
          => /\ call.ret_None
             /\ call.requests >= 1
             /\ disk_cache = call.cache_before
             /\ ~_check_disk_cache(disk_cache, call.key)
    /\ (IsScrape(call) /\ call.after = "failed")
          => (~call.hit /\ call.requests >= 1)

C9_Witness ==
    /\ IsScrape(call)
    /\ call.after = "failed"
    /\ call.status
    /\ call.requests >= 1
    /\ _check_disk_cache(disk_cache, call.key)

\* The pauses and requests of one invocation, replayed from the counter it
\* started with: a cool-down is made exactly when 5 requests were sent since the
\* last reset, and it resets the counter.  The result is the counter at the
\* end, or -1 when a pause is missing or misplaced.
RECURSIVE ReplayCounter(_, _, _)
ReplayCounter(events, i, count) ==
    IF i > Len(events) THEN count
    ELSE IF events[i].e = "cooldown"
         THEN IF count = 5 /\ events[i].ms = 1000 THEN ReplayCounter(events, i + 1, 0) ELSE -1
    ELSE IF events[i].e = "get"
         THEN IF count < 5 THEN ReplayCounter(events, i + 1, count + 1) ELSE -1
    ELSE ReplayCounter(events, i + 1, count)

\* C10: from a counter of 0, while every request is answered 200, a pause has
\* been made for every 5 requests that another request followed; the 6th
\* request is preceded by the one pause, which resets the counter; and in every
\* invocation a pause precedes exactly the requests that follow 5 requests
\* sent since the last reset.
C10_PauseBeforeEverySixthCall ==
    /\ call_count \in 0..5
    /\ net.all200 =>
          net.pauses = (IF net.requests = 0 THEN 0 ELSE (net.requests - 1) \div 5)
    /\ (net.all200 /\ net.requests = 6)
          => /\ call.count_before = 5
             /\ call.events = <<Event("cooldown", 1000), Event("get", 0)>>
             /\ call_count = 1
    /\ call.op = "_retrieve_URL_as_JSON"
          => ReplayCounter(call.events, 1, call.count_before) = call_count

C10_Witness ==
    /\ net.all200
    /\ net.requests = 6
    /\ net.pauses = 1
    /\ call_count = 1

\* C16: a check_before_scraping that finds no API key disables the scraper;
\* no operation enables a disabled scraper; and every get_candidates,
\* get_metadata and get_assets call on a disabled scraper sends no request,
\* makes no pause, returns normally without error status and changes neither
\* counter nor cache, its result being None, the default record and the
\* empty list respectively.
C16_DisabledForTheRun ==
    /\ [][scraper_disabled => scraper_disabled']_vars
    /\ [](/\ (call.op = "check_before_scraping" /\ ~call.status) => scraper_disabled
          /\ (scraper_disabled /\ call.op \in {"get_candidates", "get_metadata", "get_assets"})
                => call.disabled
          /\ (call.disabled /\ call.op \in {"get_candidates", "get_metadata", "get_assets"})
                => /\ scraper_disabled
                   /\ call.requests = 0
                   /\ call.events = <<>>
                   /\ call.outcome = "return"
                   /\ call.status
                   /\ call.msg = <<>>
                   /\ call_count = call.count_before
                   /\ disk_cache = call.cache_before
                   /\ call.op = "get_candidates"
                         => (call.ret_None /\ call.candidate_list = <<>>)
                   /\ call.op = "get_metadata"
                         => (~call.ret_None /\ call.gamedata = _new_gamedata_dic)
                   /\ call.op = "get_assets"
                         => (~call.ret_None /\ call.assets = <<>>))

C16_Witness ==
    /\ api_key = ""
    /\ scraper_disabled
    /\ call.op = "get_metadata"
    /\ call.disabled
    /\ call.gamedata = _new_gamedata_dic
    /\ call.requests = 0

\* a call that went to the network
IsFetch(c) ==
    c.op \in {"get_candidates", "get_metadata", "get_assets"} /\ ~c.disabled /\ ~c.hit

IsRetrieve(c) == c.op = "_retrieve_URL_as_JSON"

RECURSIVE SumMs(_, _, _)
SumMs(events, kinds, i) ==
    IF i > Len(events) THEN 0
    ELSE (IF events[i].e \in kinds THEN events[i].ms ELSE 0) + SumMs(events, kinds, i + 1)

\* milliseconds waited in the 429 backoffs, and in all pauses
BackoffWaited(events) == SumMs(events, {"wait"}, 1)

TotalWaited(events) == SumMs(events, {"wait", "cooldown"}, 1)

CountOf(events, kind) == LET Is(ev) == ev.e = kind IN Len(SelectSeq(events, Is))

LastEvent(events) == events[Len(events)]

\* C11: one invocation sends at most 5 HTTP requests and retries at most 4
\* times; when the server answers 429 to 5 requests in a row the invocation
\* ends after the 5th with the rate-limit error, returning None, the 5th
\* request being the last thing it does.
C11_RetriesAreBounded ==
    IsRetrieve(call)
        => /\ call.requests <= 5
           /\ call.requests = CountOf(call.events, "get")
           /\ CountOf(call.events, "wait") <= 4
           /\ CountOf(call.events, "wait") = (IF call.busy < 5 THEN call.busy ELSE 4)
           /\ call.busy >= 5
                 => /\ call.requests = 5
                    /\ ~call.status
                    /\ call.ret_None
                    /\ call.msg = MsgTooManyRequests
                    /\ LastEvent(call.events).e = "get"

C11_Witness ==
    /\ IsRetrieve(call)
    /\ call.busy = 5
    /\ call.requests = 5
    /\ ~call.status
    /\ call.msg = MsgTooManyRequests

\* C12 (as stated): a 429 followed by a 200 succeeds and the call waits
\* 5 seconds in all, whatever the counter was when it started.
C12_OnlyBackoffIsWaited ==
    (IsRetrieve(call) /\ call.busy = 1 /\ call.final = "200")
        => /\ call.status
           /\ ~call.ret_None
           /\ TotalWaited(call.events) = 5000

\* C12 (amended): 429 answers followed by a 200 succeed with the body; the
\* backoffs waited sum to 5 seconds times each retry attempt number; the only
\* other pause is the 1 second cool-down made before a request that follows 5
\* requests since the last reset, and none is made when the counter does not
\* reach 5 before the last request of the call.
C12_BackoffPlusCooldown ==
    (IsRetrieve(call) /\ call.busy \in 1..4 /\ call.final = "200")
        => /\ call.status
           /\ ~call.ret_None
           /\ call.requests = call.busy + 1
           /\ BackoffWaited(call.events) = 5000 * ((call.busy * (call.busy + 1)) \div 2)
           /\ TotalWaited(call.events)
                 = BackoffWaited(call.events) + 1000 * CountOf(call.events, "cooldown")
           /\ CountOf(call.events, "cooldown") = 0 <=> call.count_before + call.busy < 5

C12_Witness ==
    /\ IsRetrieve(call)
    /\ call.busy = 1
    /\ call.final = "200"
    /\ call.count_before = 4
    /\ call.status
    /\ call.events = <<Event("get", 0), Event("wait", 5000), Event("cooldown", 1000),
                       Event("get", 0)>>

\* C13: an answer that is neither 200 nor 429 ends the invocation at once:
\* error status with the message of that HTTP code, None returned, the request
\* answered so being the last thing done; answered so at the first attempt, the
\* invocation sends one request and makes no backoff wait.
C13_OtherStatusIsNotRetried ==
    (IsRetrieve(call) /\ call.final \in {"404", "500"} /\ call.busy < 5)
        => /\ ~call.status
           /\ call.ret_None
           /\ call.msg = MsgHttpCode(http_code(call.busy, call.final, call.busy + 1))
           /\ call.requests = call.busy + 1
           /\ CountOf(call.events, "wait") = call.busy
           /\ LastEvent(call.events).e = "get"

C13_Witness ==
    /\ IsRetrieve(call)
    /\ call.final = "404"
    /\ call.busy = 0
    /\ call.requests = 1
    /\ call.msg = MsgHttpCode(404)
    /\ BackoffWaited(call.events) = 0

\* C23: whatever the answers, the counter stays within 0..5; every HTTP
\* request, retries included, adds one to it; and a request is sent with the
\* counter above 4 only after the cool-down pause reset it: after n requests
\* in all the counter is ((n - 1) mod 5) + 1 and (n - 1) div 5 pauses were
\* made.
C23_CounterFollowsRequests ==
    /\ call_count \in 0..5
    /\ call_count = (IF net.requests = 0 THEN 0 ELSE ((net.requests - 1) % 5) + 1)
    /\ net.pauses = (IF net.requests = 0 THEN 0 ELSE (net.requests - 1) \div 5)
    /\ IsRetrieve(call)
          => /\ call.requests = CountOf(call.events, "get")
             /\ call.count_before + call.requests
                   = call_count + 5 * CountOf(call.events, "cooldown")
             /\ \A i \in 1..Len(call.events) :
                   call.events[i].e = "get"
                      => LET sent == CountOf(SubSeq(call.events, 1, i - 1), "get")
                             paused == CountOf(SubSeq(call.events, 1, i - 1), "cooldown")
                         IN  call.count_before + sent - 5 * paused \in 0..4

C23_Witness ==
    /\ IsRetrieve(call)
    /\ ~net.all200
    /\ net.requests = 8
    /\ call.busy = 4
    /\ call.final = "500"
    /\ call.requests = 5
    /\ call.count_before = 3
    /\ CountOf(call.events, "cooldown") = 1
    /\ call_count = 3

(***************************************************************************)
(* SpecSearch: one get_candidates call on a new scraper, with the search   *)
(* term and the answer drawn from SearchTerms and SearchAnswers.           *)
(***************************************************************************)
SearchServers == [busy : {0, 1}, final : {"200", "500"}, data : {DataBare}]

get_candidates == get_candidates_from(SearchTerms, SearchAnswers, SearchServers)

InitSearch == ScannerIdle /\ LauncherIdle /\ ScraperIdle

NextSearch == call.op = "idle" /\ get_candidates

SpecSearch == InitSearch /\ [][NextSearch]_vars

IsSearch(c) == c.op = "get_candidates" /\ ~c.disabled /\ c.status

\* the score of a title for a term: 1, plus 2 when equal, plus 1 when it
\* contains the term, both without regard to case
Contains(str, sub) ==
    \E i \in 0..(Len(str) - Len(sub)) : SubSeq(str, i + 1, i + Len(sub)) = sub

Score(title, term) ==
    1 + (IF lower(title) = lower(term) THEN 2 ELSE 0)
      + (IF Contains(lower(title), lower(term)) THEN 1 ELSE 0)

\* C14: every item of the answer becomes one candidate, scored 1 (+2 equal,
\* +1 contains, case-insensitively); the candidates are returned in
\* descending score order and candidates of equal score keep the order of
\* the answer.
C14_CandidatesRankedByScore ==
    IsSearch(call)
        => LET cl == call.candidate_list
               js == call.json_data
           IN  /\ Len(cl) = Len(js)
               /\ \A a \in 1..Len(js) : \E i \in 1..Len(cl) : cl[i].id = js[a].appid
               /\ \A i \in 1..Len(cl) :
                     /\ cl[i].id \in 1..Len(js)
                     /\ cl[i].display_name = js[cl[i].id].name
                     /\ cl[i].order = Score(js[cl[i].id].name, call.search_term)
               /\ \A i, j \in 1..Len(cl) :
                     i < j => \/ cl[i].order > cl[j].order
                              \/ (cl[i].order = cl[j].order /\ cl[i].id < cl[j].id)

C14_Witness ==
    /\ IsSearch(call)
    /\ call.search_term = Portal
    /\ Len(call.json_data) = 3
    /\ call.json_data[1].name = <<"P", "o", "r", "t", "a", "l", " ", "2">>
    /\ call.json_data[2].name = <<"U", "n", "r", "e", "l", "a", "t", "e", "d">>
    /\ call.json_data[3].name = Portal
    /\ [i \in 1..3 |-> call.candidate_list[i].order] = <<4, 2, 1>>
    /\ [i \in 1..3 |-> call.candidate_list[i].id] = <<3, 1, 2>>

(***************************************************************************)
(* SpecParse: get_metadata on payloads whose genres and release date are   *)
(* drawn from GenresCases and DateCases.                                   *)
(***************************************************************************)
\* 'genres': key missing, empty list, one genre, two genres
GenresCases ==
    {[present |-> FALSE, list |-> <<>>],
     [present |-> TRUE, list |-> <<>>],
     [present |-> TRUE, list |-> <<[description |-> <<"Action">>]>>],
     [present |-> TRUE, list |-> <<[description |-> <<"Action">>], [description |-> <<"Puzzle">>]>>]}

Dates ==
    {<<"1", "0", " ", "O", "c", "t", ",", " ", "2", "0", "0", "7">>,
     <<"2", "0", "0", "7">>,
     <<"C", "o", "m", "i", "n", "g", " ", "s", "o", "o", "n">>,
     <<"T", "B", "A">>,
     <<>>}

\* 'release_date': key missing, without 'date', with a null date, with a date
DateCases ==
    {[keys |-> {}, nulls |-> {}, date |-> <<>>],
     [keys |-> {"date"}, nulls |-> {"date"}, date |-> <<>>]}
    \cup {[keys |-> {"date"}, nulls |-> {}, date |-> dt] : dt \in Dates}

DataWith(genres, release_date, with_release_date) ==
    [DataFull EXCEPT
        !.keys = (DataFull.keys \ {"genres", "release_date"})
                    \cup (IF genres.present THEN {"genres"} ELSE {})
                    \cup (IF with_release_date THEN {"release_date"} ELSE {}),
        !.genres = genres.list,
        !.release_date = release_date]

ParseData ==
    {DataWith(g, rd, TRUE) : g \in GenresCases, rd \in DateCases}
    \cup {DataWith(g, [keys |-> {}, nulls |-> {}, date |-> <<>>], FALSE) : g \in GenresCases}

ParseServers == [busy : {0}, final : {"200"}, data : ParseData]

get_metadata_parsed == get_metadata_from(ParseServers)

InitParse == ScannerIdle /\ LauncherIdle /\ ScraperIdle

NextParse == set_candidate \/ get_metadata_parsed

SpecParse == InitParse /\ [][NextParse]_vars

\* a get_metadata call that fetched the payload; Parsed(c) is the payload
IsParse(c) == c.op = "get_metadata" /\ ~c.disabled /\ ~c.hit /\ c.status

Parsed(c) == _retrieve_from_disk_cache(disk_cache, c.key).data

\* C15: a payload without 'genres' key, or with an empty genres list, gives
\* the default genre, and the call returns normally.
C15_MissingGenresGiveDefault ==
    (IsParse(call) /\ ~ParseRaises(Parsed(call))
        /\ (~has(Parsed(call), "genres") \/ Len(Parsed(call).genres) = 0))
        => /\ call.outcome = "return"
           /\ call.gamedata.genre = DEFAULT_META_GENRE
           /\ call.gamedata.genre # <<>>

\* the last n characters of a string (all of it when shorter)
LastChars(str, n) == SubSeq(str, IF Len(str) > n THEN Len(str) - n + 1 ELSE 1, Len(str))

\* C20: with a non-null release-date string the year is the last 4
\* characters of the string; with the release date missing or null it is
\* the default year.
C20_YearIsLastFourCharacters ==
    IsParse(call)
        => LET d == Parsed(call)
               dated == /\ has(d, "release_date")
                        /\ has(d.release_date, "date")
                        /\ notNone(d.release_date, "date")
           IN  /\ call.outcome = "return"
               /\ call.gamedata.year = (IF dated THEN LastChars(d.release_date.date, 4)
                                        ELSE DEFAULT_META_YEAR)

(***************************************************************************)
(* SpecLauncher: a SteamLauncher with drawn launcher settings, on which    *)
(* get_arguments is called again and again.                                *)
(***************************************************************************)
\* pieces of configured argument strings
ArgPieces == {"-silent", "-fullscreen", " ", "$steamid$"}

\* most pieces in a configured argument string
MaxArgs == 3

\* most get_arguments calls in one run of SpecLauncher
MaxCalls == 3

ConfiguredSettings ==
    {NoArgs} \cup {[keys |-> {"args"}, args |-> a] : a \in SeqsUpTo(ArgPieces, MaxArgs)}

\* line 83
original_arguments(settings) == IF "args" \in settings.keys THEN settings.args ELSE <<>>

\* line 84: '{} {}'.format(arguments, original_arguments)
FormatArgs(arguments, original) == <<arguments, " ">> \o original

\* LauncherABC.get_arguments: the arguments are those of the launcher settings
super_get_arguments(settings) == settings.args

get_arguments ==
    /\ launch.calls < MaxCalls
    /\ LET arguments == "$steamid$"
           settings == [keys |-> launcher_settings.keys \cup {"args"},
                        args |-> FormatArgs(arguments, original_arguments(launcher_settings))]
           returned == super_get_arguments(settings)
       IN  /\ launcher_settings' = settings
           /\ launch' = [launch EXCEPT !.calls = @ + 1, !.returned = returned,
                                       !.first_returned = IF launch.calls = 0 THEN returned
                                                          ELSE @]
    /\ UNCHANGED <<scannerVars, scraperVars>>

InitLauncher ==
    /\ ScannerIdle
    /\ ScraperIdle
    /\ launcher_settings \in ConfiguredSettings
    /\ launch = [NoLaunch EXCEPT !.configured = launcher_settings]

NextLauncher == get_arguments

SpecLauncher == InitLauncher /\ [][NextLauncher]_vars

\* C26: after any number of get_arguments calls the 'args' setting is the
\* placeholder $steamid$, once, followed by the arguments configured
\* originally, and every call returned the same string.
C26_GetArgumentsIsIdempotent ==
    launch.calls > 0
        => /\ launcher_settings.args
                 = <<"$steamid$", " ">> \o original_arguments(launch.configured)
           /\ launch.returned = launch.first_returned

(***************************************************************************)
(* SpecAssetURL: resolve_asset_URL on a drawn asset.  A URL is the         *)
(* sequence of its query parameters, name=value joined by &; the address   *)
(* before them holds no parameter and is left out.                         *)
(***************************************************************************)
ParamNames == {"key", "apikey", "appids", "l"}

ParamValues == {"0123ABCD", "***", "440"}

\* most query parameters of a drawn URL
MaxParams == 2

Params == [name : ParamNames, value : ParamValues]

AssetURLs == SeqsUpTo(Params, MaxParams)

\* lines 396 and 398: the text 'apikey=' ends at the = of the parameter
matches_apikey(param) == param.name = "apikey"

\* line 396: re.sub('apikey=[^&]*&', 'apikey=***&', clean_url)
sub_followed_by_more(url) ==
    [i \in 1..Len(url) |->
        IF matches_apikey(url[i]) /\ i < Len(url) THEN [url[i] EXCEPT !.value = "***"]
        ELSE url[i]]

\* line 398: re.sub('apikey=[^&]*$', 'apikey=***', clean_url)
sub_at_the_end(url) ==
    [i \in 1..Len(url) |->
        IF matches_apikey(url[i]) /\ i = Len(url) THEN [url[i] EXCEPT !.value = "***"]
        ELSE url[i]]

_clean_URL_for_log(url) ==
    IF url = <<>> THEN url
    ELSE sub_at_the_end(sub_followed_by_more(url))

resolve_asset_URL ==
    /\ LET selected_asset == call.selected_asset
           url == selected_asset.url
           url_log == _clean_URL_for_log(url)
       IN  call' = [call EXCEPT !.op = "resolve_asset_URL", !.url = url, !.url_log = url_log]
    /\ UNCHANGED <<api_key, scraper_disabled, call_count, disk_cache, cache_key, candidate,
                   fetched, net>>
    /\ UNCHANGED <<scannerVars, launcherVars>>

InitAssetURL ==
    /\ ScannerIdle
    /\ LauncherIdle
    /\ api_key = "KEY"
    /\ scraper_disabled = FALSE
    /\ call_count = 0
    /\ disk_cache = EmptyCache
    /\ cache_key = ""
    /\ candidate = NoCandidate
    /\ fetched = [k \in CacheKeys |-> 0]
    /\ net = [requests |-> 0, pauses |-> 0, all200 |-> TRUE]
    /\ \E url \in AssetURLs : call = [IdleCall EXCEPT !.selected_asset = [url |-> url]]

NextAssetURL == resolve_asset_URL

SpecAssetURL == InitAssetURL /\ [][NextAssetURL]_vars

\* a query parameter that carries the API key: key=<value>
IsKeyParameter(param) == param.name \in {"key", "apikey"}

\* C21: resolve_asset_URL returns the URL unchanged and a loggable form in
\* which the value of every key=<value> parameter is *** and everything else
\* is as in the URL, so that no key value shows in the loggable form;
\* cleaning the loggable form again changes nothing.
C21_LoggableFormHidesEveryKey ==
    call.op = "resolve_asset_URL"
        => /\ call.url = call.selected_asset.url
           /\ Len(call.url_log) = Len(call.url)
           /\ \A i \in 1..Len(call.url) :
                 /\ call.url_log[i].name = call.url[i].name
                 /\ call.url_log[i].value
                        = IF IsKeyParameter(call.url[i]) THEN "***" ELSE call.url[i].value
           /\ _clean_URL_for_log(call.url_log) = call.url_log

(***************************************************************************)
(* SpecTags: get_metadata on payloads whose 'categories' are drawn: the    *)
(* key missing, or a list of at most MaxCategories category ids.  The      *)
(* first fetch of a run is followed; a cached payload parses the same.     *)
(***************************************************************************)
\* the category ids _parse_metadata_tags tests, and one it does not
CategoryIds == {1, 2, 9, 38, 49, 36, 24, 37, 39, 18, 28, 99}

\* most categories in a drawn payload
MaxCategories == 2

\* the ids of S as a list, ascending
RECURSIVE CategoryList(_)
CategoryList(S) ==
    IF S = {} THEN <<>>
    ELSE LET least == CHOOSE x \in S : \A y \in S : x <= y
         IN  <<[id |-> least]>> \o CategoryList(S \ {least})

CategoriesCases ==
    {[present |-> FALSE, list |-> <<>>]}
    \cup {[present |-> TRUE, list |-> CategoryList(S)] :
             S \in {T \in SUBSET CategoryIds : Cardinality(T) <= MaxCategories}}

DataWithCategories(categories) ==
    [DataFull EXCEPT
        !.keys = (DataFull.keys \ {"categories"})
                    \cup (IF categories.present THEN {"categories"} ELSE {}),
        !.categories = categories.list]

TagsServers == [busy : {0}, final : {"200"}, data : {DataWithCategories(c) : c \in CategoriesCases}]

get_metadata_tagged == get_metadata_from(TagsServers)

InitTags == ScannerIdle /\ LauncherIdle /\ ScraperIdle

NextTags ==
    \/ set_candidate
    \/ disk_cache = EmptyCache /\ get_metadata_tagged

SpecTags == InitTags /\ [][NextTags]_vars

\* the tag names and the category ids that stand for each
TagIds ==
    [multiplayer |-> {1}, singleplayer |-> {2}, co_op |-> {9}, online_co_op |-> {38},
     pvp |-> {49}, online_pvp |-> {36}, splitscreen |-> {24, 37, 39},
     partial_controller_support |-> {18}, controller_supported |-> {28}]

TagName(t) ==
    CASE t = "co_op" -> "co-op"
      [] t = "online_co_op" -> "online-co-op"
      [] t = "online_pvp" -> "online-pvp"
      [] t = "partial_controller_support" -> "partial-controller-support"
      [] t = "controller_supported" -> "controller-supported"
      [] OTHER -> t

\* C27: the tags of a parsed payload hold a tag name exactly when one of its
\* category ids is among the payload's categories, each name at most once,
\* and nothing else; a payload without 'categories' gives no tags.
C27_TagsFollowCategories ==
    (IsParse(call) /\ ~ParseRaises(Parsed(call)))
        => LET tags == call.gamedata.tags
               online_data == Parsed(call)
               ids == {online_data.categories[i].id : i \in 1..Len(online_data.categories)}
           IN  IF ~has(online_data, "categories") THEN tags = <<>>
               ELSE /\ \A t \in DOMAIN TagIds :
                          /\ TagName(t) \in Range(tags) <=> TagIds[t] \cap ids # {}
                          /\ Count(tags, TagName(t)) <= 1
                    /\ Range(tags) \subseteq {TagName(t) : t \in DOMAIN TagIds}

====
